---- MODULE Spec2Model ----
(***************************************************************************)
(* EuroPiMorse (morse.py): the morse table and encoder, the clock-driven   *)
(* playback cursor of the Running mode, and the mode objects Paused,       *)
(* Running, ChangeCV and ChangeText with the settings object State.        *)
(*                                                                         *)
(* Python objects are records; an exception raised by a handler is the     *)
(* name of the exception in the field/variable err, and the statements     *)
(* after the raising one are not executed (their assignments are missing). *)
(* Voltages are integers in units of 1/12000 V, so that the semitone step  *)
(* 1/12 V is 1000 and the default 4.333 V is 51996.                        *)
(* Every handler (din_handler, b1_handler, b2_handler) and every round of   *)
(* the loop of main() is one atomic step.  An exception in a handler leaves *)
(* self.mode as it was; an exception in main() ends the script (crashed).   *)
(* outlog is a history of the outputs of the clock pulses since the last    *)
(* reset_clock; klick and entered are histories of the last button click   *)
(* and of the settings a sub-mode found on entry.  The three are read by    *)
(* the properties only.                                                     *)
(***************************************************************************)
EXTENDS Integers, Sequences, FiniteSets, TLC

\* ------------------------------------------------------------ bounds
\* clock pulses followed after one cursor reset, with the knob at rest
MaxTicks == 36
\* clock pulses followed after one cursor reset, with the knob turned
UiTicks == 8
\* raw knob positions 0..KnobMax
KnobMax == 1

\* ------------------------------------------------------------ constants
SHORT_PRESSED_INTERVAL == 600
LONG_PRESSED_INTERVAL == 2400
\* AIN_TEXTCHANGE_THRESHOLD = 0.1, in percent of full scale
AIN_TEXTCHANGE_THRESHOLD == 10
DIT_LEN == 1
DAH_LEN == 3 * DIT_LEN
SYM_GAP_LEN == DIT_LEN
EOC_GAP_LEN == 3 * DIT_LEN
EOW_GAP_LEN == 7 * DIT_LEN
EOM_GAP_LEN == 7 * DIT_LEN
DIT == "."
DAH == "_"
DEFAULT_PITCH_CV == 51996
MIN_PITCH_CV == 39000
MAX_PITCH_CV == 60000
\* int((MAX_PITCH_CV - MIN_PITCH_CV) * 12)
PITCH_CV_STEPS == (MAX_PITCH_CV - MIN_PITCH_CV) \div 1000
EOW_CHAR == " "

\* ------------------------------------------------------------ encoder
\* n copies of x: Python's [x] * n and " " * n
Rep(x, n) == [i \in 1..n |-> x]

\* " ".join(sequence): the symbols with one " " between neighbours
Join(sequence) ==
    [i \in 1..(IF Len(sequence) = 0 THEN 0 ELSE 2 * Len(sequence) - 1) |->
        IF i % 2 = 1 THEN sequence[(i + 1) \div 2] ELSE " "]

\* the gates of the symbols sequence[i..]: the loop of MorseCharacter.__init__
RECURSIVE GatesFrom(_, _)
GatesFrom(sequence, i) ==
    IF i > Len(sequence) THEN <<>>
    ELSE (IF sequence[i] = DIT THEN Rep(TRUE, DIT_LEN)
          ELSE IF sequence[i] = DAH THEN Rep(TRUE, DAH_LEN)
          ELSE Rep(FALSE, SYM_GAP_LEN)) \o GatesFrom(sequence, i + 1)

Gates(sequence) == GatesFrom(sequence, 1)

MorseCharacter(char, sequence) ==
    LET seq == IF char # "EOC" /\ char # "EOM" THEN Join(sequence) ELSE sequence
    IN  [char |-> char, sequence |-> seq, gates |-> Gates(seq),
         duration |-> Len(Gates(seq))]

MORSE_CHARACTERS == <<
    MorseCharacter("A", <<DIT, DAH>>),
    MorseCharacter("B", <<DAH, DIT, DIT, DIT>>),
    MorseCharacter("C", <<DAH, DIT, DAH, DIT>>),
    MorseCharacter("D", <<DAH, DIT, DIT>>),
    MorseCharacter("E", <<DIT>>),
    MorseCharacter("F", <<DIT, DIT, DAH, DIT>>),
    MorseCharacter("G", <<DAH, DAH, DIT>>),
    MorseCharacter("H", <<DIT, DIT, DIT, DIT>>),
    MorseCharacter("I", <<DIT, DIT>>),
    MorseCharacter("J", <<DIT, DAH, DAH, DAH>>),
    MorseCharacter("K", <<DAH, DIT, DAH>>),
    MorseCharacter("L", <<DIT, DAH, DIT, DIT>>),
    MorseCharacter("M", <<DAH, DAH>>),
    MorseCharacter("N", <<DAH, DIT>>),
    MorseCharacter("O", <<DAH, DAH, DAH>>),
    MorseCharacter("P", <<DIT, DAH, DAH, DIT>>),
    MorseCharacter("Q", <<DAH, DAH, DIT, DAH>>),
    MorseCharacter("R", <<DIT, DAH, DIT>>),
    MorseCharacter("S", <<DIT, DIT, DIT>>),
    MorseCharacter("T", <<DAH>>),
    MorseCharacter("U", <<DIT, DIT, DAH>>),
    MorseCharacter("V", <<DIT, DIT, DIT, DAH>>),
    MorseCharacter("W", <<DIT, DAH, DAH>>),
    MorseCharacter("X", <<DAH, DIT, DIT, DAH>>),
    MorseCharacter("Y", <<DAH, DIT, DAH, DAH>>),
    MorseCharacter("Z", <<DAH, DAH, DIT, DIT>>),
    MorseCharacter("1", <<DIT, DAH, DAH, DAH, DAH>>),
    MorseCharacter("2", <<DIT, DIT, DAH, DAH, DAH>>),
    MorseCharacter("3", <<DIT, DIT, DIT, DAH, DAH>>),
    MorseCharacter("4", <<DIT, DIT, DIT, DIT, DAH>>),
    MorseCharacter("5", <<DIT, DIT, DIT, DIT, DIT>>),
    MorseCharacter("6", <<DAH, DIT, DIT, DIT, DIT>>),
    MorseCharacter("7", <<DAH, DAH, DIT, DIT, DIT>>),
    MorseCharacter("8", <<DAH, DAH, DAH, DIT, DIT>>),
    MorseCharacter("9", <<DAH, DAH, DAH, DAH, DIT>>),
    MorseCharacter("0", <<DAH, DAH, DAH, DAH, DAH>>),
    MorseCharacter("Á", <<DIT, DAH, DAH, DIT, DAH>>),
    MorseCharacter("Ä", <<DIT, DAH, DIT, DAH>>),
    MorseCharacter("É", <<DIT, DIT, DAH, DIT, DIT>>),
    MorseCharacter("Ñ", <<DAH, DAH, DIT, DAH, DAH>>),
    MorseCharacter("Ö", <<DAH, DAH, DAH, DIT>>),
    MorseCharacter("Ü", <<DIT, DIT, DAH, DAH>>),
    MorseCharacter(".", <<DIT, DAH, DIT, DAH, DIT, DAH>>),
    MorseCharacter(",", <<DAH, DAH, DIT, DIT, DAH, DAH>>),
    MorseCharacter(":", <<DAH, DAH, DAH, DIT, DIT, DIT>>),
    MorseCharacter(";", <<DAH, DIT, DAH, DIT, DAH, DIT>>),
    MorseCharacter("?", <<DIT, DIT, DAH, DAH, DIT, DIT>>),
    MorseCharacter("!", <<DAH, DIT, DAH, DIT, DAH, DAH>>),
    MorseCharacter("-", <<DAH, DIT, DIT, DIT, DIT, DAH>>),
    MorseCharacter("_", <<DIT, DIT, DAH, DAH, DIT, DAH>>),
    MorseCharacter("(", <<DAH, DIT, DAH, DAH, DIT>>),
    MorseCharacter(")", <<DAH, DIT, DAH, DAH, DIT, DAH>>),
    MorseCharacter("'", <<DIT, DAH, DAH, DAH, DAH, DIT>>),
    MorseCharacter("=", <<DAH, DIT, DIT, DIT, DAH>>),
    MorseCharacter("+", <<DIT, DAH, DIT, DAH, DIT>>),
    MorseCharacter("/", <<DAH, DIT, DIT, DAH, DIT>>),
    MorseCharacter("@", <<DIT, DAH, DAH, DIT, DAH, DIT>>),
    MorseCharacter("\"", <<DIT, DAH, DIT, DIT, DAH, DIT>>) >>

\* the keys of the dict MORSE_CODE
MorseKeys == {MORSE_CHARACTERS[i].char : i \in DOMAIN MORSE_CHARACTERS}

MORSE_CODE ==
    [c \in MorseKeys |->
        MORSE_CHARACTERS[CHOOSE i \in DOMAIN MORSE_CHARACTERS :
                            MORSE_CHARACTERS[i].char = c]]

EOC_MC == MorseCharacter("EOC", Rep(" ", EOC_GAP_LEN))
EOW_MC == MorseCharacter("EOW", Rep(" ", EOW_GAP_LEN))
EOM_MC == MorseCharacter("EOM", Rep(" ", EOM_GAP_LEN))
ERROR_MC == MorseCharacter("ERROR", Rep(".", 8))

\* ------------------------------------------------------------ inputs
\* the texts: sequences of one-character strings
SOS == <<"S", "O", "S">>
TextLists ==
    { << SOS, <<"E", " ", "T">> >>,
      << <<"E">>, <<"T", " ">> >>,
      << <<" ", "E">>, <<"E", " ", " ", "E">> >>,
      << <<>>, <<"E", "T">> >>,
      << <<"E", "e">>, <<" ">> >> }
\* the text index of the stored state
PersistedIndexes(texts) == 0..Len(texts)
PersistedPitches == {DEFAULT_PITCH_CV}
\* ain.percent(), in percent of full scale
AinLevels == {0, 10, 60, 100}
LowAinLevels == {a \in AinLevels : a <= AIN_TEXTCHANGE_THRESHOLD}
\* ticks_diff(ticks_ms(), b.last_pressed()) of a button release
PressTimes == {0, SHORT_PRESSED_INTERVAL - 1, SHORT_PRESSED_INTERVAL,
               LONG_PRESSED_INTERVAL - 1, LONG_PRESSED_INTERVAL}
KnobPositions == 0..KnobMax
\* the knob left at its lower stop
RestPositions == {0}
\* k1.range(steps) with the knob at raw position pos: a value in 0..steps-1
K1Range(pos, steps) == (pos * steps) \div (KnobMax + 1)

\* ------------------------------------------------------------ Python
\* the element of a one-element set: { e(v) : v \in {x} } computes x once
The(S) == CHOOSE v \in S : TRUE
PyIndexOk(seq, i) == -Len(seq) <= i /\ i < Len(seq)
PyIndex(seq, i) == IF i >= 0 THEN seq[i + 1] ELSE seq[Len(seq) + i + 1]

VARIABLES
    state,             \* the State object: pitch_cv, text_index, texts, saved
    mode,              \* name of the object self.mode refers to
    main_mode,         \* the Paused or Running object (self.mode or its main_mode)
    sub,               \* the ChangeCV or ChangeText object, NoSub without one
    cvs,               \* the six outputs GATE_OUT .. RUNNING_OUT
    interval_elapsed,  \* last_saved() >= SAVE_STATE_INTERVAL
    err,               \* the exception the last handler raised, "none" if none
    crashed,           \* an exception has left Morse() or main()
    outlog,            \* per clock pulse since the last reset_clock: outputs, glyph
    klick,             \* history: the button click the last handler dispatched
    entered            \* history: the settings the sub-mode found when entered

vars == <<state, mode, main_mode, sub, cvs, interval_elapsed, err,
          crashed, outlog, klick, entered>>

NoSub == [name |-> "NONE"]
NoKlick == [button |-> "none", mode |-> "NONE"]
NoEntry == [pitch_cv |-> 0, text_index |-> 0]
PausedObj == [name |-> "PAUSED"]
AllOff == [GATE_OUT |-> FALSE, PITCH_OUT |-> 0, EOC_OUT |-> FALSE,
           EOW_OUT |-> FALSE, EOM_OUT |-> FALSE, RUNNING_OUT |-> FALSE]

\* ------------------------------------------------------------ State, Mode
current_text_ok(st) == PyIndexOk(st.texts, st.text_index)
current_text(st) == PyIndex(st.texts, st.text_index)

set_pitch_cv(st, value) == [st EXCEPT !.pitch_cv = value, !.saved = FALSE]
set_text_index(st, value) == [st EXCEPT !.text_index = value, !.saved = FALSE]

\* mutant: RUNNING_OUT.off() is missing
all_outputs_off_KeepsRunning(cv) == [AllOff EXCEPT !.RUNNING_OUT = cv.RUNNING_OUT]

all_outputs_off(cv) == AllOff

\* ------------------------------------------------------------ Running
\* Every method returns [self, st, cv, err]; with err # "none" the fields hold
\* what was assigned before the exception.
Ret(self, st, cv, e) == [self |-> self, st |-> st, cv |-> cv, err |-> e]

cache_text_and_mc_data(self, st, cv) ==
    IF ~current_text_ok(st) THEN Ret(self, st, cv, "IndexError")
    ELSE LET text == current_text(st)
             max_index == Len(text) - 1
         IN  IF self.character_tick <= max_index
                /\ ~PyIndexOk(text, self.character_tick)
             THEN Ret(self, st, cv, "IndexError")
             ELSE Ret([self EXCEPT !.dits_in_char = self.mc.duration,
                                   !.gates = self.mc.gates,
                                   !.gate = FALSE], st, cv, "none")

reset_clock(self, st, cv) ==
    cache_text_and_mc_data(
        [self EXCEPT !.character_tick = -1, !.dit_tick = -1,
                     !.dits_in_char = 1, !.mc = EOC_MC], st, cv)

read_analogue_input(st, analog_percent) ==
    IF analog_percent > AIN_TEXTCHANGE_THRESHOLD
    THEN set_text_index(st,
            ((analog_percent - AIN_TEXTCHANGE_THRESHOLD) * Len(st.texts)) \div 100)
    ELSE st

\* mutant: the end-of-message marker is not counted as a boundary marker
IsMarker_WithoutEom(m) == m = EOC_MC \/ m = EOW_MC

\* self.mc == EOC_MC or self.mc == EOW_MC or self.mc == EOM_MC
IsMarker(m) == m = EOC_MC \/ m = EOW_MC \/ m = EOM_MC

\* mutant: the end of the text is taken one character early
AtEndOfMessage_OneEarly(self, text, nextctick) ==
    self.mc # EOM_MC /\ nextctick = Len(text) - 1

\* the first condition of handle_end_of_character
AtEndOfMessage(self, text, nextctick) ==
    self.mc # EOM_MC /\ nextctick = Len(text)

\* mutant: the separator is looked for at the completed character
AtEndOfWord_CompletedCharacter(text, nextctick) ==
    nextctick < Len(text) /\ nextctick >= 1
    /\ PyIndex(text, nextctick - 1) = EOW_CHAR

\* the second condition of handle_end_of_character
AtEndOfWord(text, nextctick) ==
    nextctick < Len(text) /\ PyIndex(text, nextctick) = EOW_CHAR

\* the third branch of handle_end_of_character, up to the table lookup
NextCharacter(self, st, cv, nextctick, analog_percent) ==
    IF Len(current_text(st)) = 0 THEN Ret(self, st, cv, "ZeroDivisionError")
    ELSE LET ct == nextctick % Len(current_text(st))
             s1 == [self EXCEPT !.character_tick = ct]
         IN  The({ IF ~PyIndexOk(current_text(st1), ct)
                   THEN Ret(s1, st1, cv, "IndexError")
                   ELSE IF PyIndex(current_text(st1), ct) \notin DOMAIN MORSE_CODE
                   THEN Ret(s1, st1, cv, "KeyError")
                   ELSE Ret([s1 EXCEPT
                               !.mc = MORSE_CODE[PyIndex(current_text(st1), ct)]],
                            st1, cv, "none") :
                   st1 \in { IF ct = 0 THEN read_analogue_input(st, analog_percent)
                             ELSE st } })

handle_end_of_character(self, st, cv, analog_percent) ==
    LET nextctick == self.character_tick + 1
        text == current_text(st)
    IN  The({ IF r.err # "none" THEN r
              ELSE cache_text_and_mc_data(r.self, r.st, r.cv) :
              r \in { IF AtEndOfMessage(self, text, nextctick)
                      THEN Ret([self EXCEPT !.mc = EOM_MC], st, cv, "none")
                      ELSE IF AtEndOfWord(text, nextctick)
                      THEN Ret([self EXCEPT !.character_tick = nextctick,
                                            !.mc = EOW_MC], st, cv, "none")
                      ELSE IF IsMarker(self.mc)
                      THEN NextCharacter(self, st, cv, nextctick, analog_percent)
                      ELSE Ret([self EXCEPT !.mc = EOC_MC], st, cv, "none") } })

\* mutant: the end-of-word output of the end-of-message marker ends with the
\* end-of-character gap
update_cvs_ShortEndOfWord(self, st, cv) ==
    [cv EXCEPT !.GATE_OUT = self.gate,
               !.PITCH_OUT = st.pitch_cv,
               !.EOC_OUT = IsMarker(self.mc) /\ self.dit_tick < EOC_GAP_LEN,
               !.EOW_OUT = (self.mc = EOW_MC
                            \/ (self.mc = EOM_MC /\ self.dit_tick < EOC_GAP_LEN)),
               !.EOM_OUT = (self.mc = EOM_MC)]

update_cvs(self, st, cv) ==
    [cv EXCEPT !.GATE_OUT = self.gate,
               !.PITCH_OUT = st.pitch_cv,
               !.EOC_OUT = IsMarker(self.mc) /\ self.dit_tick < EOC_GAP_LEN,
               !.EOW_OUT = (self.mc = EOW_MC
                            \/ (self.mc = EOM_MC /\ self.dit_tick < EOW_GAP_LEN)),
               !.EOM_OUT = (self.mc = EOM_MC)]

\* mutant: the tick counter is not taken modulo dits_in_char
clock_NoWrap(self, st, cv, analog_percent) ==
    The({ The({ IF r.err # "none" THEN r
                ELSE IF ~PyIndexOk(r.self.gates, r.self.dit_tick)
                THEN Ret(r.self, r.st, r.cv, "IndexError")
                ELSE The({ Ret(s2, r.st, update_cvs(s2, r.st, r.cv), "none") :
                           s2 \in { [r.self EXCEPT
                                      !.gate = PyIndex(r.self.gates,
                                                       r.self.dit_tick)] } }) :
                r \in { IF s1.dit_tick = 0
                        THEN handle_end_of_character(s1, st, cv, analog_percent)
                        ELSE Ret(s1, st, cv, "none") } }) :
          s1 \in { [self EXCEPT !.dit_tick = self.dit_tick + 1] } })

clock(self, st, cv, analog_percent) ==
    The({ The({ IF r.err # "none" THEN r
                ELSE IF ~PyIndexOk(r.self.gates, r.self.dit_tick)
                THEN Ret(r.self, r.st, r.cv, "IndexError")
                ELSE The({ Ret(s2, r.st, update_cvs(s2, r.st, r.cv), "none") :
                           s2 \in { [r.self EXCEPT
                                      !.gate = PyIndex(r.self.gates,
                                                       r.self.dit_tick)] } }) :
                r \in { IF s1.dit_tick = 0
                        THEN handle_end_of_character(s1, st, cv, analog_percent)
                        ELSE Ret(s1, st, cv, "none") } }) :
          s1 \in { [self EXCEPT
                      !.dit_tick = (self.dit_tick + 1) % self.dits_in_char] } })

\* Running(state): the object under construction has no cursor fields yet
NewRunning(st, cv) ==
    The({ IF r.err # "none" THEN r
          ELSE Ret(r.self, r.st, [r.cv EXCEPT !.RUNNING_OUT = TRUE], "none") :
          r \in { reset_clock([name |-> "RUNNING", character_tick |-> -1,
                               dit_tick |-> -1, dits_in_char |-> 1, mc |-> EOC_MC,
                               gates |-> <<>>, gate |-> FALSE], st, cv) } })

\* Paused(state)
NewPaused(st, cv) ==
    IF ~current_text_ok(st) THEN Ret(PausedObj, st, all_outputs_off(cv), "IndexError")
    ELSE Ret(PausedObj, st, all_outputs_off(cv), "none")

\* the entry of outlog for one clock pulse
LogEntry(self, cv) ==
    [gate |-> cv.GATE_OUT, eoc |-> cv.EOC_OUT, eow |-> cv.EOW_OUT,
     eom |-> cv.EOM_OUT, glyph |-> self.mc.char, index |-> self.character_tick]

\* ------------------------------------------------------------ construction
\* Morse.__init__: load_state, then self.mode = Paused(self.state)
Init ==
    \E texts \in TextLists :
      \E index \in PersistedIndexes(texts), pitch \in PersistedPitches :
        LET st == [pitch_cv |-> pitch, text_index |-> index, texts |-> texts,
                   saved |-> TRUE]
            r == NewPaused(st, AllOff)
        IN  /\ state = st
            /\ mode = IF r.err = "none" THEN "PAUSED" ELSE "NONE"
            /\ main_mode = PausedObj
            /\ sub = NoSub
            /\ cvs = r.cv
            /\ interval_elapsed = FALSE
            /\ err = r.err
            /\ crashed = (r.err # "none")
            /\ outlog = <<>>
            /\ klick = NoKlick
            /\ entered = NoEntry

IsMain == mode \in {"PAUSED", "RUNNING"}

\* history of a handler that is not a button handler
Unobserved ==
    /\ klick' = NoKlick
    /\ entered' = IF IsMain THEN NoEntry ELSE entered

\* ------------------------------------------------------------ clock input
\* din_handler: self.mode.clock(); SubMode.clock is self.main_mode.clock()
Din(analog_percent, maxticks) ==
    IF main_mode.name = "RUNNING"
    THEN /\ Len(outlog) < maxticks
         /\ \E r \in {clock(main_mode, state, cvs, analog_percent)} :
                /\ main_mode' = r.self
                /\ state' = r.st
                /\ cvs' = r.cv
                /\ err' = r.err
                /\ outlog' = Append(outlog, LogEntry(r.self, r.cv))
         /\ UNCHANGED <<mode, sub, interval_elapsed, crashed>>
    ELSE /\ err' = "none"
         /\ UNCHANGED <<state, mode, main_mode, sub, cvs, interval_elapsed,
                        crashed, outlog>>

DinHandler(levels, maxticks) ==
    /\ ~crashed
    /\ \E analog_percent \in levels : Din(analog_percent, maxticks)
    /\ Unobserved

\* ------------------------------------------------------------ buttons
\* Mode.b1_long_press, Mode.b2_short_press, Mode.b2_long_press and the
\* b1_short_press of a sub-mode: return self
ReturnSelf ==
    /\ err' = "none"
    /\ UNCHANGED <<state, mode, main_mode, sub, cvs, interval_elapsed,
                   crashed, outlog>>

\* mutant: entering ChangeCV rewinds the cursor of a Running main mode
MainMode_b1_short_press_RewindsCursor(pos) ==
    /\ mode' = "CHANGE_CV"
    /\ sub' = [name |-> "CHANGE_CV", old_cv |-> state.pitch_cv,
               current_cv |-> MIN_PITCH_CV + K1Range(pos, PITCH_CV_STEPS + 1) * 1000]
    /\ err' = "none"
    /\ main_mode' = IF main_mode.name = "RUNNING"
                    THEN [main_mode EXCEPT !.character_tick = -1, !.dit_tick = -1]
                    ELSE main_mode
    /\ UNCHANGED <<state, cvs, interval_elapsed, crashed, outlog>>

\* MainMode.b1_short_press: return ChangeCV(self)
MainMode_b1_short_press(pos) ==
    /\ mode' = "CHANGE_CV"
    /\ sub' = [name |-> "CHANGE_CV", old_cv |-> state.pitch_cv,
               current_cv |-> MIN_PITCH_CV + K1Range(pos, PITCH_CV_STEPS + 1) * 1000]
    /\ err' = "none"
    /\ UNCHANGED <<state, main_mode, cvs, interval_elapsed, crashed, outlog>>

\* MainMode.b2_klick: return ChangeText(self)
MainMode_b2_klick(pos) ==
    IF ~PyIndexOk(state.texts, state.text_index)
    THEN /\ err' = "IndexError"
         /\ UNCHANGED <<state, mode, main_mode, sub, cvs, interval_elapsed,
                        crashed, outlog>>
    ELSE /\ mode' = "CHANGE_TEXT"
         /\ sub' = [name |-> "CHANGE_TEXT",
                    current_index |-> K1Range(pos, Len(state.texts)),
                    new_index |-> state.text_index]
         /\ err' = "none"
         /\ UNCHANGED <<state, main_mode, cvs, interval_elapsed, crashed,
                        outlog>>

\* Paused.b1_klick: return Running(self.state)
Paused_b1_klick ==
    \E r \in {NewRunning(state, cvs)} :
        IF r.err # "none"
        THEN /\ err' = r.err
             /\ UNCHANGED <<state, mode, main_mode, sub, cvs, interval_elapsed,
                            crashed, outlog>>
        ELSE /\ mode' = "RUNNING"
             /\ main_mode' = r.self
             /\ cvs' = r.cv
             /\ err' = "none"
             /\ outlog' = <<>>
             /\ UNCHANGED <<state, sub, interval_elapsed, crashed>>

\* Running.b1_klick: return Paused(self.state)
Running_b1_klick ==
    \E r \in {NewPaused(state, cvs)} :
        /\ cvs' = r.cv
        /\ err' = r.err
        /\ IF r.err # "none"
           THEN UNCHANGED <<mode, main_mode, outlog>>
           ELSE mode' = "PAUSED" /\ main_mode' = r.self /\ outlog' = <<>>
        /\ UNCHANGED <<state, sub, interval_elapsed, crashed>>

\* mutant: the sub-mode always returns to Running
ReturnMainMode_ToRunning ==
    /\ mode' = "RUNNING"
    /\ sub' = NoSub
    /\ err' = "none"
    /\ UNCHANGED <<state, main_mode, cvs, interval_elapsed, crashed, outlog>>

\* ChangeCV.b1_klick and ChangeText.b2_klick: return self.main_mode
ReturnMainMode ==
    /\ mode' = main_mode.name
    /\ sub' = NoSub
    /\ err' = "none"
    /\ UNCHANGED <<state, main_mode, cvs, interval_elapsed, crashed, outlog>>

\* mutant: the revert leaves the pitch the knob has set
ChangeCV_b2_klick_KeepsKnobValue ==
    /\ mode' = main_mode.name
    /\ sub' = NoSub
    /\ err' = "none"
    /\ UNCHANGED <<state, main_mode, cvs, interval_elapsed, crashed, outlog>>

\* ChangeCV.b2_klick
ChangeCV_b2_klick ==
    /\ state' = IF state.pitch_cv # sub.old_cv
                THEN set_pitch_cv(state, sub.old_cv) ELSE state
    /\ mode' = main_mode.name
    /\ sub' = NoSub
    /\ err' = "none"
    /\ UNCHANGED <<main_mode, cvs, interval_elapsed, crashed, outlog>>

\* mutant: the commit writes the index and leaves the cursor where it is
ChangeText_b1_klick_NoReset ==
    /\ state' = set_text_index(state, sub.new_index)
    /\ mode' = main_mode.name
    /\ sub' = NoSub
    /\ err' = "none"
    /\ UNCHANGED <<main_mode, cvs, interval_elapsed, crashed, outlog>>

\* ChangeText.b1_klick; Mode.reset_clock of a Paused main mode is pass
ChangeText_b1_klick ==
    LET st == set_text_index(state, sub.new_index)
    IN  IF main_mode.name = "RUNNING"
        THEN \E r \in {reset_clock(main_mode, st, cvs)} :
                 /\ state' = r.st
                 /\ main_mode' = r.self
                 /\ err' = r.err
                 /\ outlog' = <<>>
                 /\ IF r.err # "none"
                    THEN UNCHANGED <<mode, sub>>
                    ELSE mode' = main_mode.name /\ sub' = NoSub
                 /\ UNCHANGED <<cvs, interval_elapsed, crashed>>
        ELSE /\ state' = st
             /\ mode' = main_mode.name
             /\ sub' = NoSub
             /\ err' = "none"
             /\ UNCHANGED <<main_mode, cvs, interval_elapsed, crashed, outlog>>

b1_klick ==
    CASE mode = "PAUSED" -> Paused_b1_klick
      [] mode = "RUNNING" -> Running_b1_klick
      [] mode = "CHANGE_CV" -> ReturnMainMode
      [] mode = "CHANGE_TEXT" -> ChangeText_b1_klick

b1_short_press(positions) ==
    IF IsMain THEN \E pos \in positions : MainMode_b1_short_press(pos)
    ELSE ReturnSelf

b2_klick(positions) ==
    CASE IsMain -> \E pos \in positions : MainMode_b2_klick(pos)
      [] mode = "CHANGE_CV" -> ChangeCV_b2_klick
      [] mode = "CHANGE_TEXT" -> ReturnMainMode

\* history of a button handler: the click it dispatched and the mode that
\* handled it; the settings a sub-mode found when it was constructed, kept
\* while the sub-mode is active and in the state in which it is left
Observed(button, time_pressed) ==
    /\ klick' = IF time_pressed < SHORT_PRESSED_INTERVAL
                THEN [button |-> button, mode |-> mode] ELSE NoKlick
    /\ entered' = IF IsMain /\ mode' \in {"CHANGE_CV", "CHANGE_TEXT"}
                  THEN [pitch_cv |-> state.pitch_cv,
                        text_index |-> state.text_index]
                  ELSE IF IsMain THEN NoEntry
                  ELSE entered

b1_handler(time_pressed, positions) ==
    /\ ~crashed
    /\ IF time_pressed >= LONG_PRESSED_INTERVAL THEN ReturnSelf
       ELSE IF time_pressed >= SHORT_PRESSED_INTERVAL THEN b1_short_press(positions)
       ELSE b1_klick
    /\ Observed("b1", time_pressed)

b2_handler(time_pressed, positions) ==
    /\ ~crashed
    /\ IF time_pressed >= LONG_PRESSED_INTERVAL THEN ReturnSelf
       ELSE IF time_pressed >= SHORT_PRESSED_INTERVAL THEN ReturnSelf
       ELSE b2_klick(positions)
    /\ Observed("b2", time_pressed)

\* ------------------------------------------------------------ main loop
\* mutant: ChangeText.update_state writes the knob's index into the settings
update_state_WritesIndex(pos) ==
    IF mode = "CHANGE_TEXT" /\ K1Range(pos, Len(state.texts)) # sub.current_index
    THEN [st |-> set_text_index(state, K1Range(pos, Len(state.texts))),
          sub |-> [sub EXCEPT !.current_index = K1Range(pos, Len(state.texts)),
                              !.new_index = K1Range(pos, Len(state.texts))],
          cv |-> cvs, err |-> "none"]
    ELSE [st |-> state, sub |-> sub, cv |-> cvs, err |-> "none"]

\* self.mode.update_state() with the knob at pos: [st, sub, cv, err]
update_state(pos) ==
    CASE mode = "CHANGE_CV" ->
            LET knob_cv == MIN_PITCH_CV + K1Range(pos, PITCH_CV_STEPS + 1) * 1000
                st == set_pitch_cv(state, knob_cv)
                sb == [sub EXCEPT !.current_cv = knob_cv]
            IN  IF knob_cv = sub.current_cv
                THEN [st |-> state, sub |-> sub, cv |-> cvs, err |-> "none"]
                ELSE IF main_mode.name = "RUNNING"
                THEN [st |-> st, sub |-> sb, cv |-> update_cvs(main_mode, st, cvs),
                      err |-> "none"]
                ELSE [st |-> st, sub |-> sb, cv |-> cvs, err |-> "AttributeError"]
      [] mode = "CHANGE_TEXT" ->
            LET index == K1Range(pos, Len(state.texts))
            IN  IF index = sub.current_index
                THEN [st |-> state, sub |-> sub, cv |-> cvs, err |-> "none"]
                ELSE [st |-> state,
                      sub |-> [sub EXCEPT !.current_index = index, !.new_index = index],
                      cv |-> cvs, err |-> "none"]
      [] OTHER -> [st |-> state, sub |-> sub, cv |-> cvs, err |-> "none"]

\* mutant: unsaved settings are written in every round of the loop
save_state_IgnoresInterval(st) ==
    IF st.saved
    THEN [st |-> st, elapsed |-> interval_elapsed]
    ELSE [st |-> [st EXCEPT !.saved = TRUE], elapsed |-> FALSE]

\* Morse.save_state on the settings st: [st, elapsed]; save_state_str restarts
\* the time since the last save
save_state(st) ==
    IF st.saved \/ ~interval_elapsed
    THEN [st |-> st, elapsed |-> interval_elapsed]
    ELSE [st |-> [st EXCEPT !.saved = TRUE], elapsed |-> FALSE]

\* one round of the loop of Morse.main: update_state, update_display, save_state
MainLoop(positions) ==
    /\ ~crashed
    /\ \E pos \in positions :
      \E u \in {update_state(pos)} :
        \E s \in {save_state(u.st)} :
            /\ sub' = u.sub
            /\ cvs' = u.cv
            /\ err' = u.err
            /\ IF u.err # "none"
               THEN /\ crashed' = TRUE
                    /\ state' = u.st
                    /\ UNCHANGED interval_elapsed
               ELSE /\ crashed' = FALSE
                    /\ state' = s.st
                    /\ interval_elapsed' = s.elapsed
    /\ Unobserved
    /\ UNCHANGED <<mode, main_mode, outlog>>

\* the time since the last save reaches SAVE_STATE_INTERVAL
TimePasses ==
    /\ ~crashed
    /\ ~interval_elapsed
    /\ interval_elapsed' = TRUE
    /\ Unobserved
    /\ UNCHANGED <<state, mode, main_mode, sub, cvs, err, crashed, outlog>>

\* every input: any level of the continuous input, the knob turned at will
Next ==
    \/ DinHandler(AinLevels, UiTicks)
    \/ \E time_pressed \in PressTimes : b1_handler(time_pressed, KnobPositions)
    \/ \E time_pressed \in PressTimes : b2_handler(time_pressed, KnobPositions)
    \/ MainLoop(KnobPositions)
    \/ TimePasses

Spec == Init /\ [][Next]_vars

\* long playback: the same program with the knob left at rest
NextPlay ==
    \/ DinHandler(AinLevels, MaxTicks)
    \/ \E time_pressed \in PressTimes : b1_handler(time_pressed, RestPositions)
    \/ \E time_pressed \in PressTimes : b2_handler(time_pressed, RestPositions)
    \/ MainLoop(RestPositions)
    \/ TimePasses

SpecPlay == Init /\ [][NextPlay]_vars

\* long playback with the continuous input at or below its threshold
NextLow ==
    \/ DinHandler(LowAinLevels, MaxTicks)
    \/ \E time_pressed \in PressTimes : b1_handler(time_pressed, RestPositions)
    \/ \E time_pressed \in PressTimes : b2_handler(time_pressed, RestPositions)
    \/ MainLoop(RestPositions)
    \/ TimePasses

SpecLow == Init /\ [][NextLow]_vars

\* ------------------------------------------------------------ properties
\* a Running object exists: the mode is Running or a sub-mode nested under it
InPlayback == ~crashed /\ main_mode.name = "RUNNING"
SubModes == {"CHANGE_CV", "CHANGE_TEXT"}
Supported(text) == \A i \in DOMAIN text : text[i] \in DOMAIN MORSE_CODE
SupportedOrSeparator(text) ==
    \A i \in DOMAIN text : text[i] \in DOMAIN MORSE_CODE \cup {EOW_CHAR}
NoSeparator(text) == \A i \in DOMAIN text : text[i] # EOW_CHAR
\* the step is a clock pulse handled by the Running object
Pulse == InPlayback /\ Len(outlog') = Len(outlog) + 1
\* the step is a clock pulse that completes the active glyph without an exception
GlyphDone == Pulse /\ main_mode'.dit_tick = 0 /\ err' = "none"

RECURSIVE SumDurations(_, _)
SumDurations(text, i) ==
    IF i > Len(text) THEN 0
    ELSE MORSE_CODE[text[i]].duration + SumDurations(text, i + 1)

\* one full message cycle of a text without separators
CycleLen(text) ==
    SumDurations(text, 1) + EOC_GAP_LEN * (Len(text) - 1) + EOM_GAP_LEN

\* C1: the gate and the glyph of the 34 ticks of one cycle of "SOS"
SosGates ==
    <<TRUE, FALSE, TRUE, FALSE, TRUE>> \o Rep(FALSE, 3)
    \o <<TRUE, TRUE, TRUE, FALSE, TRUE, TRUE, TRUE, FALSE, TRUE, TRUE, TRUE>>
    \o Rep(FALSE, 3) \o <<TRUE, FALSE, TRUE, FALSE, TRUE>> \o Rep(FALSE, 7)
SosGlyphs ==
    Rep("S", 5) \o Rep("EOC", 3) \o Rep("O", 11) \o Rep("EOC", 3) \o Rep("S", 5)
    \o Rep("EOM", 7)

\* C1: with the text "SOS" and the continuous input at or below its threshold,
\* the t-th clock pulse after a cursor reset produces the gate and plays the
\* glyph of position ((t - 1) mod 34) + 1 of S, end-of-character (3 low), O,
\* end-of-character (3 low), S, end-of-message (7 low), and on the 7
\* end-of-message ticks the end-of-message and end-of-word outputs are on.
C1_SosSequence ==
    (InPlayback /\ current_text(state) = SOS) =>
        \A t \in DOMAIN outlog :
            LET k == ((t - 1) % 34) + 1
            IN  /\ outlog[t].gate = SosGates[k]
                /\ outlog[t].glyph = SosGlyphs[k]
                /\ (SosGlyphs[k] = "EOM" => outlog[t].eom /\ outlog[t].eow)

\* C1 witness: a full cycle of "SOS" has been played and S has started again
C1_Witness ==
    /\ InPlayback
    /\ current_text(state) = SOS
    /\ Len(outlog) = 35
    /\ outlog[34].glyph = "EOM"
    /\ outlog[35].glyph = "S"

\* C2: between two supported characters separated by one word-separator the
\* end-of-word marker lasts 7 ticks: while the cursor is on such a separator
\* and the end-of-word glyph is played, its tick index stays below 7.
C2_EndOfWordLastsSevenTicks ==
    (/\ InPlayback
     /\ main_mode.mc = EOW_MC
     /\ main_mode.character_tick >= 1
     /\ main_mode.character_tick + 1 < Len(current_text(state))
     /\ current_text(state)[main_mode.character_tick] \in DOMAIN MORSE_CODE
     /\ current_text(state)[main_mode.character_tick + 2] \in DOMAIN MORSE_CODE)
        => main_mode.dit_tick < EOW_GAP_LEN

\* the four outputs of one clock pulse
Outs(e) == <<e.gate, e.eoc, e.eow, e.eom>>

\* C3: for a non-empty text of supported characters without separator and the
\* continuous input at or below its threshold, the gate, end-of-character,
\* end-of-word and end-of-message outputs of clock pulse t + L after a reset
\* equal those of pulse t, L being the length of one message cycle.
C3_PeriodicFromFirstTick ==
    (/\ InPlayback
     /\ Len(current_text(state)) > 0
     /\ Supported(current_text(state))
     /\ NoSeparator(current_text(state)))
        => \A t \in DOMAIN outlog :
              t > CycleLen(current_text(state)) =>
                  Outs(outlog[t]) = Outs(outlog[t - CycleLen(current_text(state))])

\* C3 witness: the text "ET" (cycle of 14 ticks) has been played past two cycles
C3_Witness ==
    /\ InPlayback
    /\ current_text(state) = <<"E", "T">>
    /\ CycleLen(current_text(state)) = 14
    /\ Len(outlog) > 2 * CycleLen(current_text(state))

\* C4: when a printable glyph completes and the next character of the text is
\* the word-separator, the glyph selected is the end-of-word marker and the
\* cursor moves onto the separator; and the glyph selected after an
\* end-of-word marker is never the end-of-character marker.
C4_EndOfWordSupersedesEndOfCharacter ==
    [][ /\ (/\ GlyphDone
            /\ main_mode.mc.char \in DOMAIN MORSE_CODE
            /\ main_mode.character_tick + 1 < Len(current_text(state))
            /\ current_text(state)[main_mode.character_tick + 2] = EOW_CHAR)
           => /\ main_mode'.mc = EOW_MC
              /\ main_mode'.character_tick = main_mode.character_tick + 1
        /\ (GlyphDone /\ main_mode.mc = EOW_MC) => main_mode'.mc # EOC_MC ]_vars

\* C4 witness: the end-of-word marker directly follows the last tick of "E",
\* and the character after the separator directly follows the marker
C4_Witness ==
    /\ InPlayback
    /\ current_text(state) = <<"E", " ", "T">>
    /\ Len(outlog) = 15
    /\ outlog[1].glyph = "E"
    /\ outlog[2].glyph = "EOW"
    /\ outlog[14].glyph = "EOW"
    /\ outlog[15].glyph = "T"

\* C5: for a non-empty text of supported characters and word-separators the
\* glyph resolution never looks the separator up in the morse table and never
\* fails, after any number of clock pulses.
C5_SeparatorNeverLookedUp ==
    (/\ InPlayback
     /\ Len(current_text(state)) > 0
     /\ SupportedOrSeparator(current_text(state)))
        => err = "none"

\* C6: when the cursor is on a character that is neither in the morse table
\* nor the word-separator, the active glyph is the error glyph and no handler
\* has failed.
C6_UnknownCharacterPlaysErrorGlyph ==
    (/\ InPlayback
     /\ main_mode.character_tick >= 0
     /\ main_mode.character_tick < Len(current_text(state))
     /\ current_text(state)[main_mode.character_tick + 1]
            \notin DOMAIN MORSE_CODE \cup {EOW_CHAR})
        => (main_mode.mc = ERROR_MC /\ err = "none")

\* C7: with an active text of length 0, or of one supported character,
\* starting playback and delivering clock pulses never raises an error.
C7_ShortTextNeverRaises ==
    (/\ ~crashed
     /\ current_text_ok(state)
     /\ Len(current_text(state)) <= 1
     /\ Supported(current_text(state)))
        => err = "none"

\* the text is not empty and its last character is the word-separator
EndsInSeparator(text) == Len(text) > 0 /\ text[Len(text)] = EOW_CHAR

\* C8: for a text of supported characters that ends in a word-separator (the
\* continuous input at or below its threshold): only the end-of-word and the
\* end-of-message marker are played with the cursor on the final separator;
\* the glyph after that end-of-word marker is the end-of-message marker, with
\* the end-of-message output on; and the cursor returns from the final
\* separator to the first character only after the end-of-message marker.
C8_TrailingSeparatorEndsMessage ==
    (/\ InPlayback
     /\ EndsInSeparator(current_text(state))
     /\ SupportedOrSeparator(current_text(state)))
        => LET last == Len(current_text(state)) - 1
           IN  \A t \in DOMAIN outlog :
                /\ outlog[t].index = last => outlog[t].glyph \in {"EOW", "EOM"}
                /\ (/\ t < Len(outlog)
                    /\ outlog[t].index = last
                    /\ outlog[t].glyph = "EOW")
                      => \/ outlog[t + 1].glyph = "EOW" /\ outlog[t + 1].index = last
                         \/ outlog[t + 1].glyph = "EOM" /\ outlog[t + 1].eom
                /\ (/\ t < Len(outlog)
                    /\ last > 0
                    /\ outlog[t].index = last
                    /\ outlog[t + 1].index = 0)
                      => outlog[t].glyph = "EOM" /\ outlog[t].eom

\* C8 witness: "T " has played T, the end-of-word marker, the end-of-message
\* marker, and has started T again
C8_Witness ==
    /\ InPlayback
    /\ current_text(state) = <<"T", " ">>
    /\ Len(outlog) = 24
    /\ outlog[3].glyph = "T"
    /\ outlog[16].glyph = "EOW"
    /\ outlog[17].glyph = "EOM"
    /\ outlog[23].glyph = "EOM"
    /\ outlog[24].glyph = "T"
    /\ outlog[24].index = 0

\* C9 as stated: an active AdjustPitch or SelectText has Running as parent
C9_SubModesOnlyUnderRunning ==
    mode \in SubModes => main_mode.name = "RUNNING"

\* C9 amended: a sub-mode is entered from either main mode, Paused included;
\* its parent is the main mode it was entered from, stays that mode while the
\* sub-mode is active, and leaving the sub-mode returns to it.
C9_SubModeKeepsItsParent ==
    [][ /\ (IsMain /\ mode' \in SubModes) => main_mode'.name = mode
        /\ (mode \in SubModes /\ ~crashed') =>
              /\ main_mode'.name = main_mode.name
              /\ mode' \in {mode, main_mode.name} ]_vars

\* C9 witness: SelectText is active with Paused as its parent
C9_Witness ==
    mode = "CHANGE_TEXT" /\ main_mode.name = "PAUSED" /\ ~crashed

\* C10: whenever the mode is Paused all six outputs are off, and no step that
\* starts in Paused and stays in Paused (a clock pulse among them) changes an
\* output, the pitch or the text index.
C10_PausedOutputsOff ==
    /\ [](mode = "PAUSED" => cvs = AllOff)
    /\ [][ (mode = "PAUSED" /\ mode' = "PAUSED") =>
              /\ cvs' = cvs
              /\ state'.pitch_cv = state.pitch_cv
              /\ state'.text_index = state.text_index ]_vars

\* C10 witness: Paused again after a Running session in which the pitch was
\* adjusted (the pitch cannot be changed with Paused as the parent)
C10_Witness ==
    /\ mode = "PAUSED"
    /\ state.pitch_cv # DEFAULT_PITCH_CV
    /\ ~state.saved
    /\ cvs = AllOff

\* ------------------------------------------------------------ C11
\* the cursor as reset_clock leaves it
CursorIsReset(m) ==
    /\ m.name = "RUNNING"
    /\ m.character_tick = -1
    /\ m.dit_tick = -1
    /\ m.mc = EOC_MC

\* C11 as stated: every step that changes text_index during playback, and
\* every step from Paused to Running, leaves the cursor reset
\* (character_tick = -1, dit_tick = -1, mc = EOC_MC).
C11_TextSwapResetsCursor ==
    [][ /\ (InPlayback /\ state'.text_index # state.text_index)
            => CursorIsReset(main_mode')
        /\ (mode = "PAUSED" /\ mode' = "RUNNING")
            => CursorIsReset(main_mode') ]_vars

\* C11 amended: a text_index change made during playback by anything but a
\* clock pulse (the ChangeText commit), and every step from Paused to
\* Running, leaves the cursor reset with no pulse played; a text_index change
\* made by a clock pulse (the sample of the continuous input) performs no
\* reset and leaves the cursor on character 0, tick 0.
C11_CommitAndRestartResetCursor ==
    [][ /\ (InPlayback /\ state'.text_index # state.text_index /\ ~Pulse)
            => (CursorIsReset(main_mode') /\ outlog' = <<>>)
        /\ (mode = "PAUSED" /\ mode' = "RUNNING")
            => (CursorIsReset(main_mode') /\ outlog' = <<>>)
        /\ (Pulse /\ state'.text_index # state.text_index)
            => (main_mode'.character_tick = 0 /\ main_mode'.dit_tick = 0) ]_vars

\* a commit under Running has swapped the text and reset the cursor
C11_Witness ==
    /\ InPlayback
    /\ klick = [button |-> "b1", mode |-> "CHANGE_TEXT"]
    /\ state.text_index # entered.text_index
    /\ CursorIsReset(main_mode)
    /\ err = "none"

\* ------------------------------------------------------------ C12
\* C12: in the state a b2 click in ChangeCV (revert) leaves, pitch_cv is the
\* pitch ChangeCV found when it was entered, whatever the knob and the clock
\* did in between.
C12_RevertRestoresEntryPitch ==
    klick = [button |-> "b2", mode |-> "CHANGE_CV"]
        => state.pitch_cv = entered.pitch_cv

\* reverted under Running after pulses and after the knob has set another
\* pitch (PITCH_OUT still shows the knob's value)
C12_Witness ==
    /\ klick = [button |-> "b2", mode |-> "CHANGE_CV"]
    /\ mode = "RUNNING"
    /\ Len(outlog) > 0
    /\ cvs.PITCH_OUT >= MIN_PITCH_CV
    /\ cvs.PITCH_OUT # state.pitch_cv
    /\ ~state.saved
    /\ state.pitch_cv = entered.pitch_cv

\* ------------------------------------------------------------ C13
\* C13 as stated: in the state a b2 click in ChangeText (discard) leaves,
\* text_index is the index ChangeText found when it was entered, whatever the
\* knob and the clock did in between.
C13_DiscardKeepsEntryIndex ==
    klick = [button |-> "b2", mode |-> "CHANGE_TEXT"]
        => state.text_index = entered.text_index

\* C13 amended: while ChangeText is active the discard writes nothing, and
\* text_index is changed by no step but the commit (to new_index) and a clock
\* pulse that puts the cursor on character 0, where the continuous input is
\* sampled; knob changes never write it.
C13_OnlyCommitOrSampleWritesIndex ==
    [][ mode = "CHANGE_TEXT" =>
          /\ (klick' = [button |-> "b2", mode |-> "CHANGE_TEXT"])
                => (state' = state /\ mode' = main_mode.name)
          /\ (state'.text_index # state.text_index)
                => \/ /\ klick' = [button |-> "b1", mode |-> "CHANGE_TEXT"]
                      /\ state'.text_index = sub.new_index
                   \/ /\ Pulse
                      /\ main_mode'.character_tick = 0
                      /\ main_mode'.dit_tick = 0 ]_vars

\* discarded under Running after clock pulses, with the settings never
\* written and text_index as it was at entry
C13_Witness ==
    /\ klick = [button |-> "b2", mode |-> "CHANGE_TEXT"]
    /\ mode = "RUNNING"
    /\ Len(outlog) > 1
    /\ state.text_index = entered.text_index
    /\ state.saved

\* ------------------------------------------------------------ C14
\* C14: text_index is always a valid index of texts, 0 <= text_index <
\* len(texts), and loading the stored settings never fails: Morse() is
\* constructed with a mode for every stored index.
C14_TextIndexAlwaysValid ==
    /\ 0 <= state.text_index
    /\ state.text_index < Len(state.texts)
    /\ mode # "NONE"

\* ------------------------------------------------------------ C15
\* a step in which save_state_str was called: the time since the last save
\* starts again
Written == interval_elapsed /\ ~interval_elapsed'

\* C15: the settings are written only when the interval has elapsed and they
\* are unsaved (left unsaved by an earlier step, or by the update_state of the
\* same round of the loop, which only ChangeCV does); a step that changes
\* pitch_cv or text_index leaves them unsaved unless it also writes them;
\* unsaved settings become saved only by a write, and a write leaves them saved.
C15_SavedOnlyWhenUnsavedAndDue ==
    [][ /\ Written => (state'.saved /\ (~state.saved \/ mode = "CHANGE_CV"))
        /\ (state'.saved /\ ~state.saved) => Written
        /\ (state'.pitch_cv # state.pitch_cv \/ state'.text_index # state.text_index)
             => (~state'.saved \/ Written) ]_vars

\* a pitch set by the knob has been written
C15_Witness ==
    /\ ~crashed
    /\ state.saved
    /\ ~interval_elapsed
    /\ state.pitch_cv # DEFAULT_PITCH_CV

\* ------------------------------------------------------------ C16
\* the outputs as C16 derives them from the glyph m.mc and the tick m.dit_tick
MarkerOutputsMatch(m, cv) ==
    /\ cv.EOC_OUT = (m.mc \in {EOC_MC, EOW_MC, EOM_MC} /\ m.dit_tick < 3)
    /\ cv.EOW_OUT = (m.mc = EOW_MC \/ (m.mc = EOM_MC /\ m.dit_tick < 7))
    /\ cv.EOM_OUT = (m.mc = EOM_MC)
    /\ 0 <= m.dit_tick
    /\ m.dit_tick < Len(m.mc.gates)
    /\ cv.GATE_OUT = m.mc.gates[m.dit_tick + 1]

\* C16: after every clock pulse during playback the marker outputs and the
\* gate are the function MarkerOutputsMatch of the active glyph and the tick.
C16_OutputsFollowGlyphAndTick ==
    [][ Pulse => MarkerOutputsMatch(main_mode', cvs') ]_vars

\* the same for the clock pulses that raise no exception
C16_OutputsFollowWhenNoError ==
    [][ (Pulse /\ err' = "none") => MarkerOutputsMatch(main_mode', cvs') ]_vars

\* ------------------------------------------------------------ C17
\* C17: during playback of non-empty texts of supported characters and
\* separators the cursor is negative only as reset_clock leaves it, before the
\* first clock pulse; after every clock pulse 0 <= dit_tick < duration of the
\* active glyph and 0 <= character_tick < length of the active text.
C17_CursorInRange ==
    (/\ InPlayback
     /\ \A i \in DOMAIN state.texts :
            state.texts[i] # <<>> /\ SupportedOrSeparator(state.texts[i]))
    => IF outlog = <<>>
       THEN main_mode.character_tick = -1 /\ main_mode.dit_tick = -1
       ELSE /\ 0 <= main_mode.dit_tick
            /\ main_mode.dit_tick < main_mode.mc.duration
            /\ 0 <= main_mode.character_tick
            /\ main_mode.character_tick < Len(current_text(state))

\* the continuous input has swapped the text at a message wrap, more than a
\* message after the last reset, and the cursor is on the last character of
\* the new text
C17_Witness ==
    /\ InPlayback
    /\ state.texts = << <<"E">>, <<"T", " ">> >>
    /\ state.text_index = 1
    /\ Len(outlog) > 8
    /\ outlog[1].glyph = "E"
    /\ main_mode.character_tick = 1

\* ------------------------------------------------------------ C18
\* C18: under a Running main mode, entering ChangeCV or ChangeText, leaving
\* ChangeCV by either click and leaving ChangeText by the b2 click (discard)
\* leave the Running object and the pulses played so far unchanged and, when
\* leaving, make that Running object the mode again; a clock pulse received in
\* a sub-mode leaves the Running object as Running.clock leaves it for some
\* level of the continuous input.
C18_SubModesLeaveCursorAlone ==
    [][ InPlayback =>
          /\ (mode = "RUNNING" /\ mode' \in SubModes)
                => (main_mode' = main_mode /\ outlog' = outlog)
          /\ (mode = "CHANGE_CV" /\ mode' # mode)
                => (mode' = "RUNNING" /\ main_mode' = main_mode
                    /\ outlog' = outlog)
          /\ (mode = "CHANGE_TEXT"
              /\ klick' = [button |-> "b2", mode |-> "CHANGE_TEXT"])
                => (mode' = "RUNNING" /\ main_mode' = main_mode
                    /\ outlog' = outlog)
          /\ (mode \in SubModes /\ Pulse)
                => \E analog_percent \in AinLevels :
                      main_mode' = clock(main_mode, state, cvs, analog_percent).self
        ]_vars

\* ChangeCV is active under Running, pulses have been played, and one of them
\* was received in the sub-mode (it changed text_index from the continuous
\* input)
C18_Witness ==
    /\ InPlayback
    /\ mode = "CHANGE_CV"
    /\ Len(outlog) > 1
    /\ state.text_index # entered.text_index
    /\ err = "none"

\* ------------------------------------------------------------ C19
\* the glyph that plays the character c
GlyphOf(c) == IF c = EOW_CHAR THEN "EOW" ELSE c

\* C19, for a chosen text that is non-empty and has supported characters and
\* separators only: a b1 click in ChangeText under Running (commit) leaves
\* text_index at the chosen index new_index and Running as the mode; the clock
\* pulse that follows the commit plays the first character of the chosen text
\* and leaves text_index at the chosen index, whatever the continuous input is.
C19_CommitPlaysChosenText ==
    [][ /\ (/\ InPlayback
             /\ mode = "CHANGE_TEXT"
             /\ klick' = [button |-> "b1", mode |-> "CHANGE_TEXT"]
             /\ PyIndex(state.texts, sub.new_index) # <<>>)
            => (state'.text_index = sub.new_index /\ mode' = "RUNNING")
        /\ (/\ klick = [button |-> "b1", mode |-> "CHANGE_TEXT"]
             /\ mode = "RUNNING"
             /\ SupportedOrSeparator(current_text(state))
             /\ Pulse)
            => /\ state'.text_index = state.text_index
               /\ main_mode'.mc.char = GlyphOf(current_text(state)[1]) ]_vars

\* ------------------------------------------------------------ C20
\* C20: while ChangeCV is active, under either main mode, a step in which the
\* sampled knob value current_cv changes sets pitch_cv to it, within
\* MIN_PITCH_CV .. MAX_PITCH_CV in semitone steps, shows it on PITCH_OUT and
\* raises nothing; a step that leaves current_cv unchanged leaves pitch_cv
\* unchanged.
C20_KnobChangeSetsPitch ==
    [][ (~crashed /\ mode = "CHANGE_CV" /\ mode' = "CHANGE_CV")
        => IF sub'.current_cv # sub.current_cv
           THEN /\ state'.pitch_cv = sub'.current_cv
                /\ state'.pitch_cv \in
                     { MIN_PITCH_CV + k * 1000 : k \in 0..PITCH_CV_STEPS }
                /\ cvs'.PITCH_OUT = state'.pitch_cv
                /\ err' = "none"
                /\ ~crashed'
           ELSE state'.pitch_cv = state.pitch_cv ]_vars

\* the same under a Running main mode only
C20_KnobChangeSetsPitchUnderRunning ==
    [][ (InPlayback /\ mode = "CHANGE_CV" /\ mode' = "CHANGE_CV")
        => IF sub'.current_cv # sub.current_cv
           THEN /\ state'.pitch_cv = sub'.current_cv
                /\ state'.pitch_cv \in
                     { MIN_PITCH_CV + k * 1000 : k \in 0..PITCH_CV_STEPS }
                /\ cvs'.PITCH_OUT = state'.pitch_cv
                /\ err' = "none"
                /\ ~crashed'
           ELSE state'.pitch_cv = state.pitch_cv ]_vars

====
